---- MODULE Spec2Model ----
(***************************************************************************)
(* The four polling scripts of the repository                              *)
(*   predictions/proxy.py  (XML feed, timezone-aware start-up)             *)
(*   predictions/umoiq.py  (JSON feed, timezone-aware start-up)            *)
(*   nextbus/proxy.py      (XML feed, first version)                       *)
(*   nextbus/main.py       (JSON feed, first version)                      *)
(* as one state machine: the start-up wait, the poll cycle (fetch,         *)
(* archive, parse, normalise, emit, compute the cadence sleep) and the     *)
(* wake-up from the cadence sleep.                                         *)
(*                                                                         *)
(* Conventions.  A Python str whose ordering matters (route id, direction  *)
(* name, vehicle id, linked vehicle ids) is the sequence of its code       *)
(* points, so that Python's string comparison is what StrLess computes.    *)
(* A Python dict is a function whose DOMAIN is its key set; reading a key  *)
(* outside the DOMAIN is a KeyError.  Wall-clock time is in whole seconds. *)
(* An uncaught exception ends the process: pc = "crashed", exc = its name. *)
(***************************************************************************)
EXTENDS Integers, Sequences, FiniteSets, TLC

VARIABLES
    variant,          \* which of the four scripts runs
    every_n_seconds,  \* main(every_n_seconds): the polling interval
    start_at,         \* main(start_at): None, or the anchor time asked for
    clock,            \* the wall clock, what datetime.now() returns
    pc,               \* position of main(): start, loop, sleeping, crashed
    exc,              \* the uncaught exception that ended the process
    now,              \* the local `now` of main()
    start_at_date,    \* the local `start_at_date` of main(): the anchor
    cycles,           \* number of loop iterations started so far
    resp_ok,          \* resp.ok of the latest response
    received,         \* bodies of all responses received, in receipt order
    archive,          \* what has been written (and flushed) to raw_f
    rows,             \* CSV data rows written by the latest cycle
    errs,             \* entries written to sys.stderr by the latest cycle
    parsed,           \* whether the latest cycle handed the body to a parser
    cycle_start,      \* clock value at which the latest cycle started
    finished,         \* clock value at which its processing finished
    sleep_for,        \* argument of the cadence time.sleep of that cycle
    longest,          \* the longest processing time of any cycle so far
    arg,              \* input of a pure function under test
    ret               \* its result

vars == <<variant, every_n_seconds, start_at, clock, pc, exc, now,
          start_at_date, cycles, resp_ok, received, archive, rows, errs,
          parsed, cycle_start, finished, sleep_for, longest, arg, ret>>

mainVars == <<variant, every_n_seconds, start_at, clock, pc, exc, now,
              start_at_date, cycles, resp_ok, received, archive, rows, errs,
              parsed, cycle_start, finished, sleep_for, longest>>

\* Python's None and an unbound local; a value that is present is <<v>>.
None == <<>>

Unbound == <<>>

Some(v) == <<v>>

Val(o) == o[1]

NoExc == "none"

(***************************************************************************)
(* Python strings as code-point sequences.                                 *)
(***************************************************************************)
Comma == 44

\* str.__lt__: lexicographic on code points, a proper prefix is smaller.
RECURSIVE StrLess(_, _)
StrLess(a, b) ==
    IF b = <<>> THEN FALSE
    ELSE IF a = <<>> THEN TRUE
    ELSE IF Head(a) # Head(b) THEN Head(a) < Head(b)
    ELSE StrLess(Tail(a), Tail(b))

\* str.split(sep): the pieces between separators; "" splits to [""].
RECURSIVE Split(_, _)
Split(s, sep) ==
    IF s = <<>> THEN << <<>> >>
    ELSE LET rest == Split(Tail(s), sep)
         IN  IF Head(s) = sep
             THEN << <<>> >> \o rest
             ELSE << <<Head(s)>> \o Head(rest) >> \o Tail(rest)

\* A plausible slip: compare the ids as numbers (shorter digit string first).
NumLess(a, b) ==
    IF Len(a) # Len(b) THEN Len(a) < Len(b) ELSE StrLess(a, b)

\* The order min() uses on the ids: the str order.
IdLess(a, b) == StrLess(a, b)

\* min(list): the first element that no other element is less than.
RECURSIVE PyMin(_)
PyMin(l) ==
    IF Len(l) = 1 THEN l[1]
    ELSE LET m == PyMin(SubSeq(l, 1, Len(l) - 1))
         IN  IF IdLess(l[Len(l)], m) THEN l[Len(l)] ELSE m

\* computed_fields['min_vehicle_id'] = min(pred['linkedVehicleIds'].split(','))
min_vehicle_id(pred) == PyMin(Split(pred["linkedVehicleIds"], Comma))

(***************************************************************************)
(* The four scripts.                                                       *)
(***************************************************************************)
PX == "predictions/proxy.py"

PU == "predictions/umoiq.py"

NX == "nextbus/proxy.py"

NU == "nextbus/main.py"

Variants == {PX, PU, NX, NU}

XmlVariants == {PX, NX}

JsonVariants == {PU, NU}

(***************************************************************************)
(* Time stamps as the scripts render them.                                 *)
(***************************************************************************)
SecondsPerDay == 86400

\* strftime("%Y%m%d") and strftime("%H:%M:%S") of a time in whole seconds
DateOf(t) == t \div SecondsPerDay

TimeOf(t) == t % SecondsPerDay

\* datetime.fromtimestamp(ms / 1000.0): strftime drops the sub-second part
MsToSeconds(ms) == ms \div 1000

\* round(): to the nearest integer, a tie to the even one; x = num / 1000
PyRoundMs(num) ==
    LET q == num \div 1000
        r == num % 1000
    IN  IF r < 500 THEN q
        ELSE IF r > 500 THEN q + 1
        ELSE IF q % 2 = 0 THEN q ELSE q + 1

(***************************************************************************)
(* dict helpers                                                            *)
(***************************************************************************)
EmptyDict == <<>>

\* {**old, **new}: the keys of both, new's values winning
Update(old, new) == new @@ old

\* {k: d[k] for k in keys}; the caller checks keys \subseteq DOMAIN d
Project(d, keys) == [k \in keys |-> d[k]]

(***************************************************************************)
(* Responses.  A body is {fmt: "xml", tree: elements in document order},   *)
(* {fmt: "json", data, canonical} or {fmt: "text"}; canonical says whether *)
(* the text is what json.dumps would write for its data.                   *)
(***************************************************************************)
XmlBody(tree) == [fmt |-> "xml", tree |-> tree]

JsonBody(data, canonical) ==
    [fmt |-> "json", data |-> data, canonical |-> canonical]

TextBody == [fmt |-> "text"]

\* json.dumps(response_data): the canonical text of the data
json_dumps(data) == JsonBody(data, TRUE)

(***************************************************************************)
(* The XML walk of predictions/proxy.py and nextbus/proxy.py.              *)
(***************************************************************************)
\* `fields` of predictions/proxy.py
FieldsPX ==
    {"agency_id", "request_date", "request_time", "request_timezone",
     "response_date", "response_time", "response_timezone",
     "response_duration", "stop_code", "stop_name", "route_id",
     "arrival_seconds", "arrival_minutes", "arrival_epoch", "direction_id",
     "direction_name", "trip_id", "vehicle_id", "block"}

\* fields.keys() of nextbus/proxy.py
FieldsNX ==
    {"agency_id", "response_date", "response_time", "stop_code",
     "stop_name", "route_id", "arrival_minutes", "arrival_timestamp",
     "arrival_seconds", "direction_id", "direction_name", "trip_id",
     "vehicle_id", "block"}

\* A plausible slip: the schema leaves out the context the walk carries.
FieldsDroppingContext(v) ==
    (IF v = PX THEN FieldsPX ELSE FieldsNX) \ {"direction_name"}

\* the schema a `prediction` dict is projected to
XmlFields(v) == IF v = PX THEN FieldsPX ELSE FieldsNX

\* the attributes a `prediction` element must carry
PredictionAttrs ==
    {"seconds", "minutes", "epochTime", "dirTag", "tripTag", "vehicle",
     "block"}

\* the keys set from one `prediction` element
XmlAssigned(v, a, nw, resp, stop_code) ==
    IF v = PX
    THEN [request_date |-> DateOf(nw), request_time |-> TimeOf(nw),
          request_timezone |-> "tz",
          response_date |-> DateOf(resp.date),
          response_time |-> TimeOf(resp.date),
          response_timezone |-> "GMT",
          response_duration |-> resp.elapsed,
          agency_id |-> "sfmta-cis", stop_code |-> stop_code,
          arrival_seconds |-> a["seconds"],
          arrival_minutes |-> a["minutes"],
          arrival_epoch |-> a["epochTime"], direction_id |-> a["dirTag"],
          trip_id |-> a["tripTag"], vehicle_id |-> a["vehicle"],
          block |-> a["block"]]
    ELSE [response_date |-> DateOf(resp.date),
          response_time |-> TimeOf(resp.date),
          agency_id |-> "sfmta-cis", stop_code |-> stop_code,
          arrival_minutes |-> a["minutes"],
          arrival_timestamp |-> a["epochTime"],
          arrival_seconds |-> a["seconds"], direction_id |-> a["dirTag"],
          trip_id |-> a["tripTag"], vehicle_id |-> a["vehicle"],
          block |-> a["block"]]

\* One element of tree.iter().  st = [prediction, rows, exc]: the dict the
\* walk carries, the rows written so far, the exception raised (if any).
XmlStep(v, st, tag, nw, resp, stop_code) ==
    IF st.exc # NoExc THEN st
    ELSE IF tag.tag = "predictions"
    THEN IF {"routeTag", "stopTitle"} \subseteq DOMAIN tag.attrib
         THEN [st EXCEPT !.prediction =
                  Update(@, [route_id |-> tag.attrib["routeTag"],
                             stop_name |-> tag.attrib["stopTitle"]])]
         ELSE [st EXCEPT !.exc = "KeyError"]
    ELSE IF tag.tag = "direction"
    THEN IF "title" \in DOMAIN tag.attrib
         THEN [st EXCEPT !.prediction =
                  Update(@, [direction_name |-> tag.attrib["title"]])]
         ELSE [st EXCEPT !.exc = "KeyError"]
    ELSE IF tag.tag = "prediction"
    THEN IF ~(PredictionAttrs \subseteq DOMAIN tag.attrib)
         THEN [st EXCEPT !.exc = "KeyError"]
         ELSE LET d == Update(st.prediction,
                          XmlAssigned(v, tag.attrib, nw, resp, stop_code))
              IN  IF ~(XmlFields(v) \subseteq DOMAIN d)
                  THEN [st EXCEPT !.exc = "KeyError"]
                  ELSE LET row == Project(d, XmlFields(v))
                       IN  [st EXCEPT !.prediction = row,
                                      !.rows = Append(@, row)]
    ELSE st

\* for tag in tree.iter(): ...   (elements 1..n of the tree)
RECURSIVE XmlWalk(_, _, _, _, _, _)
XmlWalk(v, tree, n, nw, resp, stop_code) ==
    IF n = 0
    THEN [prediction |-> EmptyDict, rows |-> <<>>, exc |-> NoExc]
    ELSE XmlStep(v, XmlWalk(v, tree, n - 1, nw, resp, stop_code),
                 tree[n], nw, resp, stop_code)

(***************************************************************************)
(* The result of one loop body up to the cadence sleep:                    *)
(*   archived  what it wrote to raw_f (a sequence of at most one text)     *)
(*   rows      the CSV rows it wrote                                       *)
(*   errs      the number of entries it wrote to sys.stderr                *)
(*   parsed    whether it handed the body to ET.fromstring / resp.json     *)
(*   exc       the exception that left the loop, if any                    *)
(***************************************************************************)
Outcome(archived, rws, nerrs, e) ==
    [archived |-> archived, rows |-> rws, errs |-> nerrs, exc |-> e,
     parsed |-> TRUE]

\* resp.errorMessage: requests.Response has no such attribute, so building
\* the diagnostic raises AttributeError before anything is printed.
Diagnostic(resp) ==
    [Outcome(<<>>, <<>>, 0, "AttributeError") EXCEPT !.parsed = FALSE]

\* predictions/proxy.py, lines 78-135
CyclePX(nw, resp, stop_code) ==
    IF ~resp.ok THEN Diagnostic(resp)
    ELSE IF resp.body.fmt # "xml"
    THEN Outcome(<<resp.body>>, <<>>, 0, "ParseError")
    ELSE LET st == XmlWalk(PX, resp.body.tree, Len(resp.body.tree),
                           nw, resp, stop_code)
         IN  Outcome(<<resp.body>>, st.rows, 0, st.exc)

\* nextbus/proxy.py, lines 56-92
CycleNX(nw, resp, stop_code) ==
    IF resp.body.fmt # "xml"
    THEN Outcome(<<resp.body>>, <<>>, 0, "ParseError")
    ELSE LET st == XmlWalk(NX, resp.body.tree, Len(resp.body.tree),
                           nw, resp, stop_code)
         IN  Outcome(<<resp.body>>, st.rows, 0, st.exc)

(***************************************************************************)
(* parse_predictions of predictions/umoiq.py and nextbus/main.py.          *)
(* JSON data is [type |-> "list", items |-> <<group, ...>>] or             *)
(* [type |-> "dict", keys |-> <<key, ...>>] (an object, e.g. an error).    *)
(***************************************************************************)
JsonList(items) == [type |-> "list", items |-> items]

JsonDict(keys) == [type |-> "dict", keys |-> keys]

\* the keys computed_fields reads of a group, once it has an entry
GroupKeysOk(preds) ==
    /\ {"agency", "serverTimestamp", "stop", "route"} \subseteq DOMAIN preds
    /\ "id" \in DOMAIN preds["agency"]
    /\ {"code", "name"} \subseteq DOMAIN preds["stop"]
    /\ "id" \in DOMAIN preds["route"]

\* the keys the field table of script v reads of an entry
EntryKeysOk(v, pred) ==
    /\ {"minutes", "timestamp", "direction", "tripId", "vehicleId",
        "linkedVehicleIds"} \subseteq DOMAIN pred
    /\ {"id", "name"} \subseteq DOMAIN pred["direction"]

\* computed_fields (predictions/umoiq.py) applied to (preds, pred) at time t
ComputedPU(preds, pred, t) ==
    [agency_id |-> preds["agency"]["id"],
     response_date |-> DateOf(MsToSeconds(preds["serverTimestamp"])),
     response_time |-> TimeOf(MsToSeconds(preds["serverTimestamp"])),
     response_timezone |-> "UTC",
     stop_code |-> preds["stop"]["code"],
     stop_name |-> preds["stop"]["name"],
     route_id |-> preds["route"]["id"],
     arrival_seconds |-> PyRoundMs(pred["timestamp"] - 1000 * t),
     arrival_minutes |-> pred["minutes"],
     arrival_epoch |-> pred["timestamp"],
     direction_id |-> pred["direction"]["id"],
     direction_name |-> pred["direction"]["name"],
     trip_id |-> pred["tripId"],
     min_vehicle_id |-> min_vehicle_id(pred),
     vehicle_id |-> pred["vehicleId"],
     linked_vehicle_ids |-> pred["linkedVehicleIds"]]

\* fields (nextbus/main.py) applied to (preds, pred)
ComputedNU(preds, pred) ==
    [agency_id |-> preds["agency"]["id"],
     response_date |-> DateOf(MsToSeconds(preds["serverTimestamp"])),
     response_time |-> TimeOf(MsToSeconds(preds["serverTimestamp"])),
     stop_code |-> preds["stop"]["code"],
     stop_name |-> preds["stop"]["name"],
     route_id |-> preds["route"]["id"],
     arrival_minutes |-> pred["minutes"],
     arrival_timestamp |-> pred["timestamp"],
     direction_id |-> pred["direction"]["id"],
     direction_name |-> pred["direction"]["name"],
     trip_id |-> pred["tripId"],
     min_vehicle_id |-> min_vehicle_id(pred),
     vehicle_id |-> pred["vehicleId"],
     linked_vehicle_ids |-> pred["linkedVehicleIds"]]

Computed(v, preds, pred, t) ==
    IF v = PU THEN ComputedPU(preds, pred, t) ELSE ComputedNU(preds, pred)

\* for _prediction in _predictions['values']: the records of one group,
\* as [list, exc]
RECURSIVE GroupRecords(_, _, _, _)
GroupRecords(v, preds, n, t) ==
    IF n = 0 THEN [list |-> <<>>, exc |-> NoExc]
    ELSE LET before == GroupRecords(v, preds, n - 1, t)
             pred == preds["values"][n]
         IN  IF before.exc # NoExc THEN before
             ELSE IF ~(GroupKeysOk(preds) /\ EntryKeysOk(v, pred))
             THEN [before EXCEPT !.exc = "KeyError"]
             ELSE [before EXCEPT
                      !.list = Append(@, Computed(v, preds, pred, t))]

\* for _predictions in response_data: the records of groups 1..n
RECURSIVE Collected(_, _, _, _)
Collected(v, items, n, t) ==
    IF n = 0 THEN [list |-> <<>>, exc |-> NoExc]
    ELSE LET before == Collected(v, items, n - 1, t)
             preds == items[n]
         IN  IF before.exc # NoExc THEN before
             ELSE IF "values" \notin DOMAIN preds
             THEN [before EXCEPT !.exc = "KeyError"]
             ELSE LET g == GroupRecords(v, preds, Len(preds["values"]), t)
                  IN  [list |-> before.list \o g.list, exc |-> g.exc]

\* the sort key: (pred['route_id'], pred['direction_name'], pred['vehicle_id'])
\* compared as a tuple of str
KeyLess(a, b) ==
    IF a["route_id"] # b["route_id"]
    THEN StrLess(a["route_id"], b["route_id"])
    ELSE IF a["direction_name"] # b["direction_name"]
    THEN StrLess(a["direction_name"], b["direction_name"])
    ELSE StrLess(a["vehicle_id"], b["vehicle_id"])

\* x put after every element of the sorted list s that is not greater
RECURSIVE InsertSorted(_, _)
InsertSorted(s, x) ==
    IF s = <<>> THEN <<x>>
    ELSE IF KeyLess(x, s[Len(s)])
    THEN Append(InsertSorted(SubSeq(s, 1, Len(s) - 1), x), s[Len(s)])
    ELSE Append(s, x)

\* sorted(l, key=...): ascending, equal keys in their order in l
RECURSIVE PySorted(_)
PySorted(l) ==
    IF l = <<>> THEN <<>>
    ELSE InsertSorted(PySorted(SubSeq(l, 1, Len(l) - 1)), l[Len(l)])

\* A plausible slip: each group's records sorted as the group is read.
RECURSIVE SortedPerGroup(_, _, _, _)
SortedPerGroup(v, items, n, t) ==
    IF n = 0 THEN <<>>
    ELSE SortedPerGroup(v, items, n - 1, t)
         \o PySorted(GroupRecords(v, items[n], Len(items[n]["values"]), t).list)

\* what parse_predictions returns when nothing raises
SortedBatch(v, items, n, t) == PySorted(Collected(v, items, n, t).list)

\* parse_predictions(response_data), as [list, exc]
parse_predictions(v, data, t) ==
    IF data.type = "dict"
    THEN [list |-> <<>>,
          exc |-> IF data.keys = <<>> THEN NoExc ELSE "TypeError"]
    ELSE LET c == Collected(v, data.items, Len(data.items), t)
         IN  IF c.exc # NoExc THEN [list |-> <<>>, exc |-> c.exc]
             ELSE [list |-> SortedBatch(v, data.items, Len(data.items), t),
                   exc |-> NoExc]

\* field_order of predictions/umoiq.py
FieldOrderPU ==
    {"agency_id", "request_date", "request_time", "request_timezone",
     "response_date", "response_time", "response_timezone",
     "response_duration", "stop_code", "stop_name", "route_id",
     "arrival_seconds", "arrival_minutes", "arrival_epoch", "direction_id",
     "direction_name", "trip_id", "min_vehicle_id", "vehicle_id",
     "linked_vehicle_ids"}

\* {**prediction, **{request fields}} projected to field_order
WithRequest(prediction, nw, resp) ==
    Project(Update(prediction,
                   [request_date |-> DateOf(nw), request_time |-> TimeOf(nw),
                    request_timezone |-> "tz",
                    response_duration |-> resp.elapsed]),
            FieldOrderPU)

\* predictions/umoiq.py, lines 105-134; t is the clock when the fields are
\* computed
CyclePU(nw, resp, t) ==
    IF ~resp.ok THEN Diagnostic(resp)
    ELSE IF resp.body.fmt # "json"
    THEN Outcome(<<>>, <<>>, 0, "JSONDecodeError")
    ELSE LET response_data == resp.body.data
             p == parse_predictions(PU, response_data, t)
         IN  Outcome(<<json_dumps(response_data)>>,
                     [i \in 1..Len(p.list) |->
                         WithRequest(p.list[i], nw, resp)],
                     0, p.exc)

\* nextbus/main.py, lines 69-79
CycleNU(resp, t) ==
    IF resp.body.fmt # "json"
    THEN Outcome(<<>>, <<>>, 0, "JSONDecodeError")
    ELSE LET response_data == resp.body.data
             p == parse_predictions(NU, response_data, t)
         IN  Outcome(<<json_dumps(response_data)>>, p.list, 0, p.exc)

\* the loop body of script v up to the cadence sleep
Cycle(v, nw, resp, stop_code, t) ==
    CASE v = PX -> CyclePX(nw, resp, stop_code)
      [] v = NX -> CycleNX(nw, resp, stop_code)
      [] v = PU -> CyclePU(nw, resp, t)
      [] v = NU -> CycleNU(resp, t)

(***************************************************************************)
(* The cadence scheduler.                                                  *)
(***************************************************************************)
\* A plausible slip: a fixed sleep of one interval after every cycle.
FixedSleep(interval, t, anchor) == interval

\* A plausible slip: the interval less the time since the anchor, unreduced.
UnreducedSleep(interval, t, anchor) == interval - (t - anchor)

\* every_n_seconds - ((datetime.now() - start_at_date).total_seconds()
\*                    % every_n_seconds), with datetime.now() = t
CadenceSleep(interval, t, anchor) == interval - ((t - anchor) % interval)

(***************************************************************************)
(* Inputs of main(): the command line, the clock at process start, the     *)
(* responses of the upstream service and the time a cycle takes.           *)
(***************************************************************************)
MaxInterval == 3

MaxDelay == 2

MaxDuration == 5

MaxCycles == 3

ProcessStart == 1

Intervals == 1..MaxInterval

Durations == 0..MaxDuration

\* --start-at: absent, one second before process start, or up to MaxDelay
\* seconds after it
StartAts == {None} \cup {Some(t) : t \in (ProcessStart - 1)..(ProcessStart + MaxDelay)}

\* main(stop_code)
StopCode == "15419"

\* "1" "14" (routes), "I" "O" (direction titles), "10" "2" (vehicles)
Route1 == <<49>>

Route14 == <<49, 52>>

Inbound == <<73>>

Outbound == <<79>>

Vehicle10 == <<49, 48>>

Vehicle2 == <<50>>

\* elements of the XML feed
BodyTag == [tag |-> "body", attrib |-> EmptyDict]

PredictionsTag(route) ==
    [tag |-> "predictions",
     attrib |-> [routeTag |-> route, stopTitle |-> route \o <<83>>]]

DirectionTag(title) == [tag |-> "direction", attrib |-> [title |-> title]]

PredictionTag(vehicle) ==
    [tag |-> "prediction",
     attrib |-> [seconds |-> "90", minutes |-> "1", epochTime |-> "60000",
                 dirTag |-> "d", tripTag |-> "trip", vehicle |-> vehicle,
                 block |-> "b"]]

ErrorTag == [tag |-> "Error", attrib |-> [shouldRetry |-> "false"]]

\* groups and entries of the JSON feed
Group(route, ts, values) ==
    [agency |-> [id |-> "sf-muni"], serverTimestamp |-> ts,
     stop |-> [code |-> StopCode, name |-> "stop"],
     route |-> [id |-> route], values |-> values]

GroupWithoutValues(route, ts) ==
    [agency |-> [id |-> "sf-muni"], serverTimestamp |-> ts,
     stop |-> [code |-> StopCode, name |-> "stop"],
     route |-> [id |-> route]]

Entry(direction, vehicle) ==
    [minutes |-> 1, timestamp |-> 60500,
     direction |-> [id |-> "d", name |-> direction], tripId |-> "trip",
     vehicleId |-> vehicle, linkedVehicleIds |-> vehicle]

\* what the service may answer a script: [ok, body]
XmlResponses ==
    {[ok |-> TRUE,
      body |-> XmlBody(<<BodyTag, PredictionsTag(Route14),
                         DirectionTag(Outbound), PredictionTag(Vehicle2),
                         PredictionTag(Vehicle10)>>)],
     [ok |-> TRUE,
      body |-> XmlBody(<<BodyTag, PredictionsTag(Route1),
                         PredictionTag(Vehicle2)>>)],
     [ok |-> FALSE, body |-> XmlBody(<<BodyTag, ErrorTag>>)],
     [ok |-> FALSE, body |-> TextBody]}

JsonResponses ==
    {[ok |-> TRUE,
      body |-> JsonBody(JsonList(<<Group(Route14, 1000, <<Entry(Outbound, Vehicle2)>>),
                                   Group(Route1, 2000, <<Entry(Inbound, Vehicle10)>>)>>),
                        FALSE)],
     [ok |-> TRUE,
      body |-> JsonBody(JsonList(<<GroupWithoutValues(Route1, 1000)>>), TRUE)],
     [ok |-> FALSE, body |-> JsonBody(JsonDict(<<"errorMessage">>), TRUE)],
     [ok |-> FALSE, body |-> TextBody]}

Responses(v) == IF v \in XmlVariants THEN XmlResponses ELSE JsonResponses

(***************************************************************************)
(* main()                                                                  *)
(***************************************************************************)
Init ==
    /\ variant \in Variants
    /\ every_n_seconds \in Intervals
    /\ start_at \in StartAts
    /\ clock = ProcessStart
    /\ pc = "start" /\ exc = NoExc
    /\ now = Unbound /\ start_at_date = Unbound
    /\ cycles = 0 /\ resp_ok = TRUE
    /\ received = <<>> /\ archive = <<>> /\ rows = <<>> /\ errs = 0
    /\ parsed = FALSE
    /\ cycle_start = 0 /\ finished = 0 /\ sleep_for = None /\ longest = 0
    /\ arg = None /\ ret = None

Crash(e) == pc' = "crashed" /\ exc' = e

\* time.sleep(start_at_date - now): a negative argument raises ValueError,
\* otherwise the process resumes that many seconds later at the loop head
StartupSleep(anchor) ==
    IF anchor - clock < 0
    THEN Crash("ValueError") /\ UNCHANGED clock
    ELSE clock' = clock + (anchor - clock) /\ pc' = "loop" /\ UNCHANGED exc

\* the start-up of predictions/proxy.py (lines 64-75), predictions/umoiq.py
\* (lines 94-102) and nextbus/proxy.py (lines 48-53)
StartupOf(v) ==
    /\ pc = "start" /\ variant = v
    /\ now' = Some(clock)
    /\ start_at_date' = IF start_at = None THEN Some(clock) ELSE start_at
    /\ StartupSleep(Val(start_at_date'))
    /\ UNCHANGED <<variant, every_n_seconds, start_at, cycles, resp_ok,
                   received, archive, rows, errs, parsed, cycle_start,
                   finished, sleep_for, longest, arg, ret>>

StartupPX == StartupOf(PX)

StartupPU == StartupOf(PU)

StartupNX == StartupOf(NX)

\* the start-up of nextbus/main.py (lines 62-66): start_at_date is bound
\* only when --start-at is given
StartupNU ==
    /\ pc = "start" /\ variant = NU
    /\ now' = Some(clock)
    /\ IF start_at = None
       THEN Crash("UnboundLocalError") /\ UNCHANGED <<clock, start_at_date>>
       ELSE start_at_date' = start_at /\ StartupSleep(Val(start_at))
    /\ UNCHANGED <<variant, every_n_seconds, start_at, cycles, resp_ok,
                   received, archive, rows, errs, parsed, cycle_start,
                   finished, sleep_for, longest, arg, ret>>

\* One iteration of `while True` of script v, up to and including the call
\* of the cadence time.sleep.  The request takes d seconds, the rest of the
\* iteration none; the response is stamped when it is sent.
PollOf(v) ==
    /\ pc = "loop" /\ variant = v /\ cycles < MaxCycles
    /\ \E r \in Responses(v), d \in Durations :
        LET resp == [ok |-> r.ok, body |-> r.body, date |-> clock + d,
                     elapsed |-> d]
            o == Cycle(v, clock, resp, StopCode, clock + d)
            s == CadenceSleep(every_n_seconds, clock + d, Val(start_at_date))
        IN  /\ cycles' = cycles + 1
            /\ cycle_start' = clock
            /\ now' = IF v \in {PX, PU} THEN Some(clock) ELSE now
            /\ resp_ok' = r.ok
            /\ received' = Append(received, r.body)
            /\ archive' = archive \o o.archived
            /\ rows' = o.rows
            /\ errs' = o.errs
            /\ parsed' = o.parsed
            /\ longest' = IF d > longest THEN d ELSE longest
            /\ clock' = clock + d
            /\ finished' = clock + d
            /\ IF o.exc # NoExc
               THEN Crash(o.exc) /\ sleep_for' = None
               ELSE /\ sleep_for' = Some(s)
                    /\ IF s < 0 THEN Crash("ValueError")
                       ELSE pc' = "sleeping" /\ UNCHANGED exc
    /\ UNCHANGED <<variant, every_n_seconds, start_at, start_at_date, arg, ret>>

PollPX == PollOf(PX)

PollPU == PollOf(PU)

PollNX == PollOf(NX)

PollNU == PollOf(NU)

\* the cadence time.sleep returns
Wake ==
    /\ pc = "sleeping"
    /\ clock' = clock + Val(sleep_for)
    /\ pc' = "loop"
    /\ UNCHANGED <<variant, every_n_seconds, start_at, exc, now,
                   start_at_date, cycles, resp_ok, received, archive, rows,
                   errs, parsed, cycle_start, finished, sleep_for, longest,
                   arg, ret>>

Next ==
    \/ StartupPX \/ StartupPU \/ StartupNX \/ StartupNU
    \/ PollPX \/ PollPU \/ PollNX \/ PollNU
    \/ Wake

Spec == Init /\ [][Next]_vars

(***************************************************************************)
(* The state main() is not in, for the specifications of pure functions.   *)
(***************************************************************************)
MainIdle ==
    /\ every_n_seconds = 0 /\ start_at = None
    /\ clock = 0 /\ pc = "idle" /\ exc = NoExc /\ now = Unbound
    /\ start_at_date = Unbound /\ cycles = 0 /\ resp_ok = TRUE
    /\ received = <<>> /\ archive = <<>> /\ rows = <<>> /\ errs = 0
    /\ parsed = FALSE /\ longest = 0
    /\ cycle_start = 0 /\ finished = 0 /\ sleep_for = None

(***************************************************************************)
(* SpecParse: one loop body on every response body of bounded size, the    *)
(* XML scripts on every element sequence, the JSON scripts on every list   *)
(* of groups.                                                              *)
(***************************************************************************)
MaxElems == 6

MaxGroups == 2

MaxEntries == 2

\* the elements a generated XML body is made of
XmlAlphabet ==
    {PredictionsTag(Route1), PredictionsTag(Route14), DirectionTag(Inbound),
     DirectionTag(Outbound), PredictionTag(Vehicle2)}

JsonEntries == {Entry(d, v) : d \in {Inbound, Outbound}, v \in {Vehicle10, Vehicle2}}

\* the groups holding exactly n entries
GroupsOf(n) ==
    {Group(r, ts, vs) : r \in {Route1, Route14}, ts \in {1000, 2000},
                        vs \in [1..n -> JsonEntries]}

\* the lists of at most g groups holding at most e entries in all
RECURSIVE GroupLists(_, _)
GroupLists(g, e) ==
    {<<>>} \cup
    (IF g = 0 THEN {}
     ELSE UNION {{<<grp>> \o rest : grp \in GroupsOf(k),
                                    rest \in GroupLists(g - 1, e - k)} :
                 k \in 0..e})

InitParse ==
    /\ MainIdle
    /\ variant \in Variants
    /\ arg = None /\ ret = None

\* the loop body of script `variant` on a successful response with the
\* given body, requested at time 0 and answered at once; arg records the body
LoopBody(body) ==
    /\ arg' = Some(body)
    /\ ret' = Some(Cycle(variant, 0,
                         [ok |-> TRUE, body |-> body, date |-> 0,
                          elapsed |-> 0],
                         StopCode, 0))
    /\ UNCHANGED mainVars

\* on every XML body: the root and up to MaxElems elements after it
LoopBodyXml ==
    /\ pc = "idle" /\ ret = None
    /\ variant \in XmlVariants
    /\ \E n \in 0..MaxElems : \E t \in [1..n -> XmlAlphabet] :
        LoopBody(XmlBody(<<BodyTag>> \o t))

\* on every JSON body: a list of groups
LoopBodyJson ==
    /\ pc = "idle" /\ ret = None
    /\ variant \in JsonVariants
    /\ \E l \in GroupLists(MaxGroups, MaxEntries) :
        LoopBody(JsonBody(JsonList(l), FALSE))

NextParse == LoopBodyXml \/ LoopBodyJson

SpecParse == InitParse /\ [][NextParse]_vars

(***************************************************************************)
(* SpecMin: min_vehicle_id on every linkedVehicleIds text of bounded       *)
(* length over the characters , 0 1 2 9.                                   *)
(***************************************************************************)
MaxIdsLen == 6

\* the characters , 0 1 2 9
IdChars == {44, 48, 49, 50, 57}

InitMin ==
    /\ MainIdle /\ variant = PU
    /\ arg = None /\ ret = None

ApplyMinVehicleId ==
    /\ pc = "idle" /\ ret = None
    /\ \E n \in 0..MaxIdsLen : \E ids \in [1..n -> IdChars] :
        /\ arg' = Some(ids)
        /\ ret' = Some(min_vehicle_id([linkedVehicleIds |-> ids]))
    /\ UNCHANGED mainVars

NextMin == ApplyMinVehicleId

SpecMin == InitMin /\ [][NextMin]_vars

\* the elements of a list
Elems(l) == {l[i] : i \in 1..Len(l)}

\* "9,10,2" and "10"
Str_9_10_2 == <<57, 44, 49, 48, 44, 50>>

Str_10 == <<49, 48>>

\* C10: min_vehicle_id is an element of the comma-separated list and no
\* element is smaller under string comparison; "9,10,2" yields "10".
C10_LexicographicMin ==
    ret # None =>
        /\ Val(ret) \in Elems(Split(Val(arg), Comma))
        /\ \A e \in Elems(Split(Val(arg), Comma)) : ~StrLess(e, Val(ret))
        /\ (Val(arg) = Str_9_10_2 => Val(ret) = Str_10)

C10_Witness == arg = Some(Str_9_10_2) /\ ret = Some(Str_10)
(***************************************************************************)
(* Claims about main(), checked under Spec.                                *)
(***************************************************************************)
\* the exceptions a response body can make the parsers and the walk raise
ParseFailures == {"ParseError", "JSONDecodeError", "KeyError", "TypeError"}

\* C1: whenever the GET of a cycle returns a non-success status, that cycle
\* writes no CSV row and exactly one diagnostic entry, skips parsing, and
\* the process does not terminate.
C1_FetchFailureIsolated ==
    (cycles >= 1 /\ ~resp_ok) =>
        /\ rows = <<>>
        /\ errs = 1
        /\ ~parsed
        /\ pc # "crashed"

\* C2: a response body that is malformed or lacks an expected attribute or
\* key never terminates the process.
C2_ParseFailureContained == ~(pc = "crashed" /\ exc \in ParseFailures)

\* C3: a cycle that started on the cadence grid and took less than one
\* interval is followed by a cycle exactly one interval after its start;
\* while no cycle has taken a full interval (in particular with
\* zero-duration processing) the k-th cycle starts at anchor + k * interval.
C3_DriftNonAccumulation ==
    pc = "loop" =>
        LET T0 == Val(start_at_date)
            I == every_n_seconds
        IN  /\ (/\ cycles >= 1
                /\ (cycle_start - T0) % I = 0
                /\ finished - cycle_start < I)
               => clock = cycle_start + I
            /\ longest < I => clock = T0 + cycles * I

C3_Witness ==
    /\ pc = "loop" /\ cycles = 2
    /\ longest > 0 /\ longest < every_n_seconds
    /\ finished > cycle_start
    /\ clock = Val(start_at_date) + 2 * every_n_seconds

\* C4: for every start_at, past ones and an absent one included, the
\* process gets through the start-up wait to its first cycle.
C4_StartupNeverFails == ~(pc = "crashed" /\ cycles = 0)

\* C8: the archive holds the body of every response received so far,
\* successful or not, once each and in receipt order.
C8_ArchiveComplete == pc \in {"sleeping", "loop", "crashed"} => archive = received

\* C9: whatever the processing time of a cycle, the cadence sleep is
\* strictly positive and at most one interval, it ends at the first grid
\* point anchor + k * interval strictly after the moment processing
\* finished, and that is when the next cycle starts: no cycle runs for a
\* tick that passed during processing.
C9_SleepBounds ==
    (cycles >= 1 /\ sleep_for # None) =>
        LET T0 == Val(start_at_date)
            I == every_n_seconds
            s == Val(sleep_for)
        IN  /\ s > 0 /\ s <= I
            /\ (finished + s - T0) % I = 0
            /\ pc # "crashed"
            /\ pc = "loop" => (clock = finished + s /\ clock > finished)

\* a cycle overran by more than one interval and a tick was skipped
C9_Witness ==
    /\ pc = "loop" /\ cycles >= 1 /\ sleep_for # None
    /\ finished - cycle_start > every_n_seconds
    /\ clock - cycle_start >= 2 * every_n_seconds
    /\ (finished - cycle_start) % every_n_seconds # 0

(***************************************************************************)
(* Claims about one loop body, checked under SpecParse.                    *)
(***************************************************************************)
\* the body the loop body was given, and the rows it wrote
InBody == Val(arg)

OutRows == Val(ret).rows

\* the sort key of a row, and the tuple order on keys
RowKey(r) == <<r["route_id"], r["direction_name"], r["vehicle_id"]>>

RowKeyLess(a, b) ==
    \E i \in 1..3 :
        /\ \A j \in 1..(i - 1) : RowKey(a)[j] = RowKey(b)[j]
        /\ StrLess(RowKey(a)[i], RowKey(b)[i])

NonDecreasing(rws) ==
    \A i, j \in 1..Len(rws) : i < j => ~RowKeyLess(rws[j], rws[i])

\* what identifies the entries of a JSON body in the rows: the key fields
\* and the response time of the group
RECURSIVE Encounter(_, _)
Encounter(items, n) ==
    IF n = 0 THEN <<>>
    ELSE Encounter(items, n - 1) \o
         [i \in 1..Len(items[n]["values"]) |->
            <<items[n]["route"]["id"],
              items[n]["values"][i]["direction"]["name"],
              items[n]["values"][i]["vehicleId"],
              items[n]["serverTimestamp"] \div 1000>>]

RowTag(r) == RowKey(r) \o <<r["response_time"]>>

\* rws is enc rearranged, entries of equal key in their order in enc
StableRearrangement(rws, enc) ==
    /\ Len(rws) = Len(enc)
    /\ \E p \in [1..Len(enc) -> 1..Len(enc)] :
        /\ \A i, j \in 1..Len(enc) : i # j => p[i] # p[j]
        /\ \A i \in 1..Len(enc) : RowTag(rws[i]) = enc[p[i]]
        /\ \A i, j \in 1..Len(enc) :
              (i < j /\ RowKey(rws[i]) = RowKey(rws[j])) => p[i] < p[j]

\* C5 as claimed: in every variant the rows of a cycle are in non-decreasing
\* order of (route id, direction name, vehicle id).
C5_SortedInEveryVariant == ret # None => NonDecreasing(OutRows)

\* C5 as amended: in the JSON scripts the rows of a cycle are in
\* non-decreasing order of (route id, direction name, vehicle id); they are
\* the entries of all groups together, entries of equal key in encounter
\* order.
C5_SortedInJsonVariants ==
    (ret # None /\ variant \in JsonVariants) =>
        /\ NonDecreasing(OutRows)
        /\ StableRearrangement(OutRows,
                               Encounter(InBody.data.items, Len(InBody.data.items)))

\* two groups whose entries arrive in descending key order
C5_Witness ==
    /\ ret # None /\ variant \in JsonVariants
    /\ Len(InBody.data.items) = 2
    /\ Len(InBody.data.items[1]["values"]) = 1
    /\ Len(InBody.data.items[2]["values"]) = 1
    /\ Len(OutRows) = 2
    /\ RowKeyLess(OutRows[1], OutRows[2])
    /\ OutRows[1]["route_id"] = InBody.data.items[2]["route"]["id"]
    /\ OutRows[2]["route_id"] = InBody.data.items[1]["route"]["id"]

\* positions of the elements of a tag in a tree, and the last one before p
Positions(tree, tagname) == {i \in 1..Len(tree) : tree[i].tag = tagname}

Max(S) == CHOOSE m \in S : \A x \in S : x <= m

Min(S) == CHOOSE m \in S : \A x \in S : m <= x

HasBefore(tree, tagname, p) == \E i \in Positions(tree, tagname) : i < p

LastBefore(tree, tagname, p) ==
    tree[Max({i \in Positions(tree, tagname) : i < p})]

\* the prediction elements with no container or no direction before them
Orphans(tree) ==
    {p \in Positions(tree, "prediction") :
        ~HasBefore(tree, "predictions", p) \/ ~HasBefore(tree, "direction", p)}

\* the prediction elements the walk reaches
Walked(tree) ==
    IF Orphans(tree) = {} THEN Positions(tree, "prediction")
    ELSE {p \in Positions(tree, "prediction") : p < Min(Orphans(tree))}

\* the position of the i-th prediction element
NthPrediction(tree, i) ==
    CHOOSE p \in Positions(tree, "prediction") :
        Cardinality({q \in Positions(tree, "prediction") : q <= p}) = i

\* C6: the XML walk writes one record per prediction element that has a
\* container and a direction before it, in document order, and each record
\* carries the route id and stop name of the latest container and the
\* direction name of the latest direction element before its prediction.
C6_XmlContextPropagation ==
    (ret # None /\ variant \in XmlVariants) =>
        /\ Len(OutRows) = Cardinality(Walked(InBody.tree))
        /\ \A i \in 1..Len(OutRows) :
            LET p == NthPrediction(InBody.tree, i)
                r == OutRows[i]
            IN  /\ {"route_id", "stop_name", "direction_name"} \subseteq DOMAIN r
                /\ r["route_id"] =
                      LastBefore(InBody.tree, "predictions", p).attrib["routeTag"]
                /\ r["stop_name"] =
                      LastBefore(InBody.tree, "predictions", p).attrib["stopTitle"]
                /\ r["direction_name"] =
                      LastBefore(InBody.tree, "direction", p).attrib["title"]

\* a direction, two predictions, a second direction, one more prediction
C6_Witness ==
    /\ ret # None /\ variant \in XmlVariants
    /\ InBody.tree = <<BodyTag, PredictionsTag(Route14), DirectionTag(Inbound),
                    PredictionTag(Vehicle2), PredictionTag(Vehicle2),
                    DirectionTag(Outbound), PredictionTag(Vehicle2)>>
    /\ Len(OutRows) = 3
    /\ OutRows[1]["direction_name"] = Inbound
    /\ OutRows[2]["direction_name"] = Inbound
    /\ OutRows[3]["direction_name"] = Outbound

\* the request and response stamps of a row
StampFields ==
    {"request_date", "request_time", "request_timezone", "response_date",
     "response_time", "response_timezone"}

Stamps(r) == [k \in StampFields \cap DOMAIN r |-> r[k]]

\* C7: all rows of one cycle carry the same request and response date, time
\* and timezone.
C7_TimestampsUniform ==
    ret # None => \A i, j \in 1..Len(OutRows) : Stamps(OutRows[i]) = Stamps(OutRows[j])

====
